---------------------------- MODULE Spec2Model ----------------------------
(***************************************************************************)
(* A model of src/ai-royal.js: the Discord mention bot that keeps a small  *)
(* per-user rolling conversation, asks an OpenAI-compatible endpoint for a *)
(* completion, strips the reasoning markup from the answer and sends it    *)
(* back in message-sized chunks.                                           *)
(*                                                                         *)
(* A JavaScript string is modelled as the sequence of its characters, each *)
(* character a one-character TLA+ string.  The chunker, whose limit is     *)
(* 1900 characters, works on run-length encoded strings: a sequence of     *)
(* runs [c |-> character, n |-> repetitions], so that lines of thousands   *)
(* of characters are handled with the real limit.                          *)
(***************************************************************************)
EXTENDS Integers, Sequences, FiniteSets, TLC

VARIABLES
    maxHistoryMessages,  \* MAX_HISTORY_MESSAGES, read from the environment
    maxHistoryChars,     \* MAX_HISTORY_CHARS, read from the environment
    globalSystemPrompt,  \* state.globalSystemPrompt
    conversations,       \* state.conversations: userId -> conversation object
    heap,                \* conversation object -> its messages array ([] if not in use)
    pushed,              \* conversation object -> every turn pushed to it, in order
    mh,                  \* the messageCreate handler invocations
    ih,                  \* the interactionCreate handler invocation
    bans,                \* the calls of guild.members.ban that went through
    unhandled,           \* a promise rejection has escaped a handler
    evCount,             \* events delivered so far
    eventBudget,         \* events the platform delivers in this run
    ghost,               \* history of each mention, for the end-to-end claims
    san,                 \* a run of stripThinkBlocks on one input, twice
    chk,                 \* a run of sendLongReply on one input
    url,                 \* a run of buildChatCompletionsUrl in one environment
    trm                  \* a push and trimHistory on one conversation

vars == <<maxHistoryMessages, maxHistoryChars, globalSystemPrompt, conversations,
          heap, pushed, mh, ih, bans, unhandled, evCount, eventBudget, ghost, san, chk,
          url, trm>>

\* what no event of the bot changes
fixed == <<maxHistoryMessages, maxHistoryChars, eventBudget, san, chk, url, trm>>

botVars == <<maxHistoryMessages, maxHistoryChars, globalSystemPrompt, conversations,
             heap, pushed, mh, ih, bans, unhandled, evCount, eventBudget, ghost>>

-----------------------------------------------------------------------------
(* Characters and strings *)

LowerLetters ==
    {"a","b","c","d","e","f","g","h","i","j","k","l","m",
     "n","o","p","q","r","s","t","u","v","w","x","y","z"}

UpperLetters ==
    {"A","B","C","D","E","F","G","H","I","J","K","L","M",
     "N","O","P","Q","R","S","T","U","V","W","X","Y","Z"}

Digits == {"0","1","2","3","4","5","6","7","8","9"}

\* what the i flag of a regular expression does to one character
ToLower(c) ==
    CASE c = "A" -> "a" [] c = "B" -> "b" [] c = "C" -> "c" [] c = "D" -> "d"
      [] c = "E" -> "e" [] c = "F" -> "f" [] c = "G" -> "g" [] c = "H" -> "h"
      [] c = "I" -> "i" [] c = "J" -> "j" [] c = "K" -> "k" [] c = "L" -> "l"
      [] c = "M" -> "m" [] c = "N" -> "n" [] c = "O" -> "o" [] c = "P" -> "p"
      [] c = "Q" -> "q" [] c = "R" -> "r" [] c = "S" -> "s" [] c = "T" -> "t"
      [] c = "U" -> "u" [] c = "V" -> "v" [] c = "W" -> "w" [] c = "X" -> "x"
      [] c = "Y" -> "y" [] c = "Z" -> "z" [] OTHER -> c

\* \w of a regular expression
IsWordChar(c) == c \in LowerLetters \cup UpperLetters \cup Digits \cup {"_"}

\* \s of a regular expression, and the white space String.prototype.trim removes
IsSpace(c) == c \in {" ", "\n", "\t", "\r"}

\* the literal `lit` (lower case) is at position i of s, whatever the case
MatchLit(s, i, lit) ==
    /\ i >= 1
    /\ i + Len(lit) - 1 <= Len(s)
    /\ \A k \in 1..Len(lit) : ToLower(s[i + k - 1]) = lit[k]

\* \b at position i of s, the character before it being a word character
WordEndAt(s, i) == i > Len(s) \/ ~IsWordChar(s[i])

\* the first position >= i of s holding character c, 0 if there is none
RECURSIVE IndexOfChar(_, _, _)
IndexOfChar(s, c, i) ==
    IF i > Len(s) THEN 0
    ELSE IF s[i] = c THEN i
    ELSE IndexOfChar(s, c, i + 1)

\* the first position >= i of s that holds no white space (\s* is greedy)
RECURSIVE SkipSpaces(_, _)
SkipSpaces(s, i) ==
    IF i <= Len(s) /\ IsSpace(s[i]) THEN SkipSpaces(s, i + 1) ELSE i

\* String.prototype.trim
RECURSIVE TrimLeft(_)
TrimLeft(s) ==
    IF Len(s) > 0 /\ IsSpace(s[1]) THEN TrimLeft(Tail(s)) ELSE s

RECURSIVE TrimRight(_)
TrimRight(s) ==
    IF Len(s) > 0 /\ IsSpace(s[Len(s)]) THEN TrimRight(SubSeq(s, 1, Len(s) - 1)) ELSE s

Trim(s) == TrimRight(TrimLeft(s))

-----------------------------------------------------------------------------
(* stripThinkBlocks: five String.prototype.replace calls with a global,    *)
(* case-insensitive regular expression each, then trim.  A replace scans   *)
(* the string from the left; where the expression matches, the match is    *)
(* dropped and the scan goes on after it.  Each expression below has one   *)
(* way to match from a given start: [^>]* followed by > ends at the first  *)
(* >, \s* cannot take a character the next literal needs, and the lazy     *)
(* [\s\S]*? ends at the first closing tag.                                 *)

THINK == <<"t","h","i","n","k">>

REASONING == <<"r","e","a","s","o","n","i","n","g">>

CLOSE_THINK == <<"<","/">> \o THINK \o <<">">>

\* the position after an optional "/" at position i
AfterSlash(s, i) == IF i <= Len(s) /\ s[i] = "/" THEN i + 1 ELSE i

\* /<think\b[^>]*>/ from position i: the position of its ">" , 0 if no match
ThinkOpenEnd(s, i) ==
    IF i <= Len(s) /\ s[i] = "<" /\ MatchLit(s, i + 1, THINK) /\ WordEndAt(s, i + 6)
    THEN IndexOfChar(s, ">", i + 6)
    ELSE 0

\* the end of the first "</think>" that starts at a position >= k, 0 if none
RECURSIVE FindCloseThink(_, _)
FindCloseThink(s, k) ==
    IF k > Len(s) THEN 0
    ELSE IF MatchLit(s, k, CLOSE_THINK) THEN k + Len(CLOSE_THINK) - 1
    ELSE FindCloseThink(s, k + 1)

\* /<think\b[^>]*>[\s\S]*?<\/think>/ from position i: its last position, 0 if no match
ThinkBlockEnd(s, i) ==
    LET g == ThinkOpenEnd(s, i)
    IN  IF g = 0 THEN 0 ELSE FindCloseThink(s, g + 1)

\* /<\/?think\b[^>]*>/ from position i
ThinkTagEnd(s, i) ==
    LET j == AfterSlash(s, i + 1)
    IN  IF i <= Len(s) /\ s[i] = "<" /\ MatchLit(s, j, THINK) /\ WordEndAt(s, j + 5)
        THEN IndexOfChar(s, ">", j + 5)
        ELSE 0

\* /<\s*reasoning\b[^>]*>/ from position i
ReasoningOpenEnd(s, i) ==
    LET j == SkipSpaces(s, i + 1)
    IN  IF i <= Len(s) /\ s[i] = "<" /\ MatchLit(s, j, REASONING) /\ WordEndAt(s, j + 9)
        THEN IndexOfChar(s, ">", j + 9)
        ELSE 0

\* /<\/\s*reasoning\s*>/ from position k
ReasoningCloseEnd(s, k) ==
    LET j  == SkipSpaces(s, k + 2)
        j2 == SkipSpaces(s, j + 9)
    IN  IF /\ k + 1 <= Len(s) /\ s[k] = "<" /\ s[k + 1] = "/"
           /\ MatchLit(s, j, REASONING)
           /\ j2 <= Len(s) /\ s[j2] = ">"
        THEN j2
        ELSE 0

RECURSIVE FindCloseReasoning(_, _)
FindCloseReasoning(s, k) ==
    IF k > Len(s) THEN 0
    ELSE IF ReasoningCloseEnd(s, k) > 0 THEN ReasoningCloseEnd(s, k)
    ELSE FindCloseReasoning(s, k + 1)

\* /<\s*reasoning\b[^>]*>[\s\S]*?<\/\s*reasoning\s*>/ from position i
ReasoningBlockEnd(s, i) ==
    LET g == ReasoningOpenEnd(s, i)
    IN  IF g = 0 THEN 0 ELSE FindCloseReasoning(s, g + 1)

\* /<\/?\s*reasoning\b[^>]*>/ from position i
ReasoningTagEnd(s, i) ==
    LET j == SkipSpaces(s, AfterSlash(s, i + 1))
    IN  IF i <= Len(s) /\ s[i] = "<" /\ MatchLit(s, j, REASONING) /\ WordEndAt(s, j + 9)
        THEN IndexOfChar(s, ">", j + 9)
        ELSE 0

\* the last position of the match of expression `re` that starts at i, 0 if none
MatchEnd(re, s, i) ==
    CASE re = "thinkBlock"     -> ThinkBlockEnd(s, i)
      [] re = "thinkTag"       -> ThinkTagEnd(s, i)
      [] re = "reasoningBlock" -> ReasoningBlockEnd(s, i)
      [] re = "reasoningTag"   -> ReasoningTagEnd(s, i)

\* s.replace(re, '') from position i on, acc being what is kept so far
RECURSIVE RemoveFrom(_, _, _, _)
RemoveFrom(re, s, i, acc) ==
    IF i > Len(s) THEN acc
    ELSE LET e == MatchEnd(re, s, i)
         IN  IF e > 0 THEN RemoveFrom(re, s, e + 1, acc)
             ELSE RemoveFrom(re, s, i + 1, Append(acc, s[i]))

RemoveAll(re, s) == RemoveFrom(re, s, 1, <<>>)

\* the number of "\n" at the head of s
RECURSIVE NewlineRun(_)
NewlineRun(s) ==
    IF Len(s) > 0 /\ s[1] = "\n" THEN 1 + NewlineRun(Tail(s)) ELSE 0

\* s.replace(/\n{3,}/g, '\n\n')
RECURSIVE CollapseNewlines(_)
CollapseNewlines(s) ==
    IF Len(s) = 0 THEN s
    ELSE LET n == NewlineRun(s)
         IN  IF n >= 3 THEN <<"\n", "\n">> \o CollapseNewlines(SubSeq(s, n + 1, Len(s)))
             ELSE IF n > 0 THEN SubSeq(s, 1, n) \o CollapseNewlines(SubSeq(s, n + 1, Len(s)))
             ELSE <<s[1]>> \o CollapseNewlines(Tail(s))

stripThinkBlocks(text) ==
    IF Len(text) = 0 THEN text
    ELSE LET o1 == RemoveAll("thinkBlock", text)
             o2 == RemoveAll("thinkTag", o1)
             o3 == RemoveAll("reasoningBlock", o2)
             o4 == RemoveAll("reasoningTag", o3)
         IN  Trim(CollapseNewlines(o4))


-----------------------------------------------------------------------------
(* sendLongReply, on run-length encoded strings *)

\* the most fragments a sanitizer input is made of
MaxFrags == 3

\* the most runs a chunker input is made of
MaxRuns == 3

MAX == 1900

RECURSIVE RLen(_)
\* String.prototype.length
RLen(rs) == IF Len(rs) = 0 THEN 0 ELSE rs[1].n + RLen(Tail(rs))

\* a string of single characters as runs of one
ToRuns(s) == [i \in 1..Len(s) |-> [c |-> s[i], n |-> 1]]

NO_CONTENT == ToRuns(<<"(","n","o"," ","c","o","n","t","e","n","t",")">>)

\* buf.trim().length: some character of the string is not white space
NonBlank(rs) == \E i \in 1..Len(rs) : ~IsSpace(rs[i].c)

\* line.slice(0, k)
RECURSIVE RTake(_, _)
RTake(rs, k) ==
    IF k <= 0 \/ Len(rs) = 0 THEN <<>>
    ELSE IF rs[1].n <= k THEN <<rs[1]>> \o RTake(Tail(rs), k - rs[1].n)
    ELSE <<[c |-> rs[1].c, n |-> k]>>

\* line.slice(k)
RECURSIVE RDrop(_, _)
RDrop(rs, k) ==
    IF k <= 0 \/ Len(rs) = 0 THEN rs
    ELSE IF rs[1].n <= k THEN RDrop(Tail(rs), k - rs[1].n)
    ELSE <<[c |-> rs[1].c, n |-> rs[1].n - k]>> \o Tail(rs)

\* String(text).split('\n'), from run i on: cur is the line being read
RECURSIVE SplitFrom(_, _, _, _)
SplitFrom(rs, i, cur, lines) ==
    IF i > Len(rs) THEN Append(lines, cur)
    ELSE IF rs[i].c = "\n"
         THEN SplitFrom(rs, i + 1, <<>>,
                        Append(lines, cur) \o [k \in 1..(rs[i].n - 1) |-> <<>>])
         ELSE SplitFrom(rs, i + 1, Append(cur, rs[i]), lines)

SplitLines(rs) == SplitFrom(rs, 1, <<>>, <<>>)

\* an over-long line pushed whole
HardSplitWhole(line) == <<line>>

\* an over-long line cut to its first MAX characters, the rest dropped
HardSplitFirst(line) == <<RTake(line, MAX)>>

\* for (let i = 0; i < line.length; i += MAX) parts.push(line.slice(i, i + MAX))
RECURSIVE HardSplit(_)
HardSplit(line) ==
    IF RLen(line) = 0 THEN <<>>
    ELSE <<RTake(line, MAX)>> \o HardSplit(RDrop(line, MAX))

\* pushBuf: the parts after it
pushBuf(parts, buf) == IF NonBlank(buf) THEN Append(parts, buf) ELSE parts

\* buf ? `${buf}\n${line}` : line
JoinLine(buf, line) ==
    IF RLen(buf) > 0 THEN buf \o <<[c |-> "\n", n |-> 1]>> \o line ELSE line

\* the for loop over the lines, from line i on, and the pushBuf after it
RECURSIVE ChunkFrom(_, _, _, _)
ChunkFrom(lines, i, parts, buf) ==
    IF i > Len(lines) THEN pushBuf(parts, buf)
    ELSE LET line == lines[i]
         IN  IF RLen(JoinLine(buf, line)) > MAX
             THEN IF RLen(line) > MAX
                  THEN ChunkFrom(lines, i + 1, pushBuf(parts, buf) \o HardSplit(line), <<>>)
                  ELSE ChunkFrom(lines, i + 1, pushBuf(parts, buf), line)
             ELSE ChunkFrom(lines, i + 1, parts, JoinLine(buf, line))

\* if (!text) text = '(no content)': text is null or a string
ReplyText(text) ==
    IF text.isNull \/ RLen(text.runs) = 0 THEN NO_CONTENT ELSE text.runs

\* the parts array sendLongReply builds
ReplyParts(text) == ChunkFrom(SplitLines(ReplyText(text)), 1, <<>>, <<>>)


-----------------------------------------------------------------------------
(* The sanitizer on its own: one input, sanitized and sanitized again *)

StripFragments ==
    { <<"<","t","h","i","n","k",">">>,
      <<"<","/","t","h","i","n","k",">">>,
      <<"<","T","h","i","n","k"," ","a",">">>,
      <<"<","t","h","i">>,
      <<"n","k",">">>,
      <<"<","r","e","a","s","o","n","i","n","g",">">>,
      <<"<","/"," ","r","e","a","s","o","n","i","n","g"," ",">">>,
      <<"x">>,
      <<" ">>,
      <<"\n","\n">> }

\* the strings made of at most n fragments
RECURSIVE Concats(_)
Concats(n) ==
    IF n = 0 THEN {<<>>}
    ELSE Concats(n - 1) \cup {s \o f : s \in Concats(n - 1), f \in StripFragments}

SanIdle == [phase |-> "idle", x |-> <<>>, once |-> <<>>, twice |-> <<>>]

SanInit == san \in {[SanIdle EXCEPT !.phase = "input", !.x = x] : x \in Concats(MaxFrags)}

SanitizeOnce ==
    /\ san.phase = "input"
    /\ san' = [san EXCEPT !.phase = "once", !.once = stripThinkBlocks(san.x)]
    /\ UNCHANGED <<botVars, chk, url, trm>>

SanitizeAgain ==
    /\ san.phase = "once"
    /\ san' = [san EXCEPT !.phase = "twice", !.twice = stripThinkBlocks(san.once)]
    /\ UNCHANGED <<botVars, chk, url, trm>>

-----------------------------------------------------------------------------
(* The chunker on its own: one input text, split and sent part by part *)

RunChoices ==
    {[c |-> "a", n |-> k] : k \in {1, 1899, 1900, 1901, 5000}}
      \cup {[c |-> " ", n |-> k] : k \in {1, 1901}}
      \cup {[c |-> "\n", n |-> k] : k \in {1, 2}}

\* the run-length encoded strings of at most n runs
RECURSIVE RunSeqs(_)
RunSeqs(n) ==
    IF n = 0 THEN {<<>>}
    ELSE RunSeqs(n - 1) \cup {Append(s, r) : s \in RunSeqs(n - 1), r \in RunChoices}

ChunkInputs ==
    {[isNull |-> TRUE, runs |-> <<>>]}
      \cup {[isNull |-> FALSE, runs |-> rs] : rs \in RunSeqs(MaxRuns)}

ChkIdle ==
    [phase |-> "idle", text |-> [isNull |-> FALSE, runs |-> <<>>], parts |-> <<>>,
     sent |-> 0, threw |-> FALSE]

ChkInit == chk \in {[ChkIdle EXCEPT !.phase = "input", !.text = t] : t \in ChunkInputs}

\* lines 215-243: build the parts, then call message.reply with parts[0]
ChunkStart ==
    /\ chk.phase = "input"
    /\ chk' = [chk EXCEPT !.phase = "reply", !.parts = ReplyParts(chk.text)]
    /\ UNCHANGED <<botVars, san, url, trm>>

\* message.reply resolves: it rejects when parts[0] is undefined (no content)
ChunkReplied ==
    /\ chk.phase = "reply"
    /\ \E ok \in BOOLEAN :
         IF ok /\ Len(chk.parts) >= 1
         THEN chk' = [chk EXCEPT !.sent = 1,
                                 !.phase = IF Len(chk.parts) > 1 THEN "send" ELSE "done"]
         ELSE chk' = [chk EXCEPT !.phase = "done", !.threw = TRUE]
    /\ UNCHANGED <<botVars, san, url, trm>>

\* message.channel.send resolves for parts[i]
ChunkSent ==
    /\ chk.phase = "send"
    /\ \E ok \in BOOLEAN :
         IF ok
         THEN chk' = [chk EXCEPT !.sent = @ + 1,
                                 !.phase = IF chk.sent + 1 < Len(chk.parts) THEN "send" ELSE "done"]
         ELSE chk' = [chk EXCEPT !.phase = "done", !.threw = TRUE]
    /\ UNCHANGED <<botVars, san, url, trm>>


-----------------------------------------------------------------------------
(* The bot: configuration, state and helpers *)

\* the most events (messages and interactions) delivered in one run
MaxEvents == 2

Users == {"u1", "u2"}

\* the messageCreate invocations that may be in flight together
Handlers == {1, 2}

\* client.user.id
BotUserId == <<"1">>

SYSTEM_PROMPT ==
    <<"Y","o","u"," ","a","r","e"," ","a"," ","h","e","l","p","f","u","l",
      " ","D","i","s","c","o","r","d"," ","a","s","s","i","s","t","a","n",
      "t","."," ","B","e"," ","c","o","n","c","i","s","e"," ","a","n","d",
      " ","a","c","c","u","r","a","t","e",".">>

\* the instruction that stands for an empty mention
PLACEHOLDER ==
    <<"R","e","s","p","o","n","d"," ","h","e","l","p","f","u","l","l","y",
      " ","t","o"," ","t","h","e"," ","u","s","e","r",".">>

\* MAX_HISTORY_MESSAGES and MAX_HISTORY_CHARS as the environment may set them:
\* a small message bound, a small character bound
Configs ==
    { [messages |-> 2,  chars |-> 12000],
      [messages |-> 30, chars |-> 12] }

\* no entry of state.conversations for a user
NoConv == 0

Turn(role, content) == [role |-> role, content |-> content]

getSystemPrompt ==
    LET p == Trim(globalSystemPrompt)
    IN  IF Len(p) > 0 THEN p ELSE SYSTEM_PROMPT

\* the conversation objects: one per user in the store and one more per handler
\* that still holds an object a reset has detached from the store
ObjIds == 1..(Cardinality(Users) + Cardinality(Handlers))

\* the objects the store or a handler refers to
Referenced(convs, handlers) ==
    {convs[u] : u \in Users} \cup {handlers[h].conv : h \in Handlers}

\* garbage collection: an object nothing refers to is gone
Collect(hp, convs, handlers) ==
    [id \in ObjIds |-> IF id \in Referenced(convs, handlers) THEN hp[id] ELSE <<>>]

\* a getConversation that hands a new user the object of a user who has one
getConversationShared(userId) ==
    IF conversations[userId] = NoConv
    THEN IF \E u \in Users : conversations[u] # NoConv
         THEN LET id == conversations[CHOOSE u \in Users : conversations[u] # NoConv]
              IN  [convs |-> [conversations EXCEPT ![userId] = id], id |-> id]
         ELSE LET id == CHOOSE i \in ObjIds : i \notin Referenced(conversations, mh)
              IN  [convs |-> [conversations EXCEPT ![userId] = id], id |-> id]
    ELSE [convs |-> conversations, id |-> conversations[userId]]

\* getConversation: the store and the object it returns ({ messages: [] } is a
\* fresh object when the user has none)
getConversation(userId) ==
    IF conversations[userId] = NoConv
    THEN LET id == CHOOSE i \in ObjIds :
                     /\ i \notin Referenced(conversations, mh)
                     /\ \A k \in ObjIds : k < i => k \in Referenced(conversations, mh)
         IN  [convs |-> [conversations EXCEPT ![userId] = id], id |-> id]
    ELSE [convs |-> conversations, id |-> conversations[userId]]

RECURSIVE approxChars(_)
approxChars(messages) ==
    IF Len(messages) = 0 THEN 0
    ELSE Len(messages[1].content) + approxChars(Tail(messages))

\* a first loop that drops the newest message: pop in place of shift
RECURSIVE TrimCountNewest(_)
TrimCountNewest(messages) ==
    IF Len(messages) > maxHistoryMessages
    THEN TrimCountNewest(SubSeq(messages, 1, Len(messages) - 1))
    ELSE messages

\* while (conversation.messages.length > MAX_HISTORY_MESSAGES) shift
RECURSIVE TrimCount(_)
TrimCount(messages) ==
    IF Len(messages) > maxHistoryMessages THEN TrimCount(Tail(messages)) ELSE messages

\* while (approxChars(messages) > MAX_HISTORY_CHARS && messages.length > 1) shift
RECURSIVE TrimChars(_)
TrimChars(messages) ==
    IF approxChars(messages) > maxHistoryChars /\ Len(messages) > 1
    THEN TrimChars(Tail(messages))
    ELSE messages

\* trimHistory without its second loop
trimHistoryCountOnly(messages) == TrimCount(messages)

\* trimHistory: the messages array after it
trimHistory(messages) == TrimChars(TrimCount(messages))

\* conversation.messages.push(turn); trimHistory(conversation): the array after both
PushAndTrim(messages, turn) == trimHistory(Append(messages, turn))

\* the literal `lit` is at position i of s
MatchExact(s, i, lit) ==
    /\ i >= 1
    /\ i + Len(lit) - 1 <= Len(s)
    /\ \A k \in 1..Len(lit) : s[i + k - 1] = lit[k]

\* new RegExp(`<@!?${botUserId}>`) from position i: its last position, 0 if no match
MentionEnd(s, i, botUserId) ==
    LET j == IF i + 2 <= Len(s) /\ s[i + 2] = "!" THEN i + 3 ELSE i + 2
        e == j + Len(botUserId)
    IN  IF /\ i + 1 <= Len(s) /\ s[i] = "<" /\ s[i + 1] = "@"
           /\ MatchExact(s, j, botUserId)
           /\ e <= Len(s) /\ s[e] = ">"
        THEN e
        ELSE 0

RECURSIVE RemoveMentions(_, _, _, _)
RemoveMentions(s, i, botUserId, acc) ==
    IF i > Len(s) THEN acc
    ELSE LET e == MentionEnd(s, i, botUserId)
         IN  IF e > 0 THEN RemoveMentions(s, e + 1, botUserId, acc)
             ELSE RemoveMentions(s, i + 1, botUserId, Append(acc, s[i]))

stripBotMention(content, botUserId) == Trim(RemoveMentions(content, 1, botUserId, <<>>))

\* the user turn taken from the content as it came, mention and all
UserMessageRaw(content) ==
    IF Len(Trim(content)) > 0 THEN Trim(content) ELSE PLACEHOLDER

\* lines 350-353: the text of the user turn
UserMessage(content) ==
    LET cleaned == stripBotMention(content, BotUserId)
    IN  IF Len(Trim(cleaned)) > 0 THEN Trim(cleaned) ELSE PLACEHOLDER

\* an optional field of the response: <<>> when absent or null, <<value>> otherwise
Absent == <<>>

Present(v) == <<v>>

\* lines 162-170: the text openAiChatCompletions returns for a 2xx body
CompletionText(body) ==
    LET rawContent == IF body.content # Absent THEN body.content[1]
                      ELSE IF body.text # Absent THEN body.text[1]
                      ELSE <<>>
        cleanedContent == stripThinkBlocks(rawContent)
        cleanedReasoning ==
            stripThinkBlocks(IF body.reasoning # Absent THEN body.reasoning[1] ELSE <<>>)
        content == IF Len(cleanedContent) > 0 THEN cleanedContent ELSE cleanedReasoning
    IN  Trim(content)

\* a request that carries the system entry and the newest turn only
RequestMessagesNewestOnly(messages) ==
    <<Turn("system", getSystemPrompt)>>
      \o (IF Len(messages) = 0 THEN <<>> ELSE <<messages[Len(messages)]>>)

\* lines 127-130: the messages of the request
RequestMessages(messages) == <<Turn("system", getSystemPrompt)>> \o messages


-----------------------------------------------------------------------------
(* The events the platform and the completion endpoint deliver *)

HELLO == <<"h","e","l","l","o">>

HI_THERE == <<"H","i"," ","t","h","e","r","e">>

Message(author, bot, guild, mentioned, restricted, content) ==
    [author |-> author, bot |-> bot, guild |-> guild, mentioned |-> mentioned,
     restricted |-> restricted, content |-> content]

MENTION_HELLO == <<"<","@","1",">","h","e","l","l","o">>

MENTION_ONLY == <<"<","@","!","1",">"," ">>

MENTION_TWO == <<"h","i"," ","<","@","1",">","<","@","2",">">>

\* the messageCreate events: mentions in a guild channel, a mention in a restricted
\* channel, and the messages the chat pipeline must ignore
Messages ==
    { Message("u1", FALSE, TRUE, TRUE, FALSE, MENTION_HELLO),
      Message("u1", FALSE, TRUE, TRUE, FALSE, MENTION_ONLY),
      Message("u2", FALSE, TRUE, TRUE, FALSE, MENTION_TWO),
      Message("u2", FALSE, TRUE, TRUE, TRUE, MENTION_HELLO),
      Message("u2", TRUE, TRUE, TRUE, FALSE, MENTION_HELLO),
      Message("u2", FALSE, FALSE, TRUE, FALSE, MENTION_HELLO),
      Message("u2", FALSE, TRUE, FALSE, FALSE, MENTION_HELLO) }

\* the mentions of one user among them
MentionsOfOne == {m \in Messages : m.author = "u1"}

Body(content, text, reasoning) ==
    [content |-> content, text |-> text, reasoning |-> reasoning]

THINK_HI_THERE ==
    <<"<","t","h","i","n","k",">","x","<","/","t","h","i","n","k",">",
      "H","i"," ","t","h","e","r","e">>

THINK_ONLY == <<"<","t","h","i","n","k",">","y","<","/","t","h","i","n","k",">">>

\* the 2xx response bodies: content with a think block, and a legacy text that is
\* only a think block beside reasoning_content
Bodies ==
    { Body(Present(THINK_HI_THERE), Absent, Absent),
      Body(Absent, Present(THINK_ONLY), Present(<<" ","r","\n">>)) }

\* how a completion call fails with its timer still pending: a non-2xx status
\* (line 158); fetch or res.text() rejecting, or a 2xx body JSON.parse throws on
UpstreamFailures == {"http", "rejected"}

\* how a completion call fails: one of these, or the abort of the timer
Failures == UpstreamFailures \cup {"timeout"}

\* the prompt option of /systemprompt
Prompts ==
    { <<" ","b","e"," ","b","r","i","e","f"," ">>,
      <<" "," ">> }

MhIdle ==
    [pc |-> "idle", msg |-> Message("u1", FALSE, TRUE, FALSE, FALSE, <<>>),
     conv |-> NoConv, userMessage |-> <<>>, typing |-> "none",
     result |-> "none", req |-> <<>>, requests |-> 0, assistantText |-> <<>>,
     pushedAssistant |-> FALSE, nparts |-> 0, sent |-> 0, errReplies |-> 0,
     timer |-> "none", aborted |-> FALSE]

\* prompt and resetContext are the options of the command being handled
IhIdle ==
    [pc |-> "idle", cmd |-> "none", replied |-> FALSE, prompt |-> <<>>,
     resetContext |-> FALSE]

GhostIdle == [pre |-> <<>>, alone |-> FALSE, body |-> Body(Absent, Absent, Absent)]

\* the state after construction, whatever the configuration
Constructed ==
    /\ globalSystemPrompt = SYSTEM_PROMPT
    /\ conversations = [u \in Users |-> NoConv]
    /\ heap = [id \in ObjIds |-> <<>>]
    /\ pushed = [id \in ObjIds |-> <<>>]
    /\ mh = [h \in Handlers |-> MhIdle]
    /\ ih = IhIdle
    /\ bans = 0
    /\ unhandled = FALSE
    /\ evCount = 0
    /\ ghost = [h \in Handlers |-> GhostIdle]

BotInit ==
    /\ \E cfg \in Configs :
         /\ maxHistoryMessages = cfg.messages
         /\ maxHistoryChars = cfg.chars
    /\ eventBudget = MaxEvents
    /\ Constructed

\* the bot as the sanitizer and chunker runs leave it: constructed with the default
\* configuration, no event yet
BotOff ==
    /\ maxHistoryMessages = 30
    /\ maxHistoryChars = 12000
    /\ eventBudget = MaxEvents
    /\ Constructed

-----------------------------------------------------------------------------
(* The messageCreate handler, one action per stretch between two awaits.   *)
(* A handler that has returned is idle again: its slot takes the next      *)
(* message.                                                                *)

\* another event touched the conversation of `author`: the mentions of that user
\* other than h are no longer alone
DisturbOthers(g, h, author) ==
    [k \in Handlers |->
        IF k # h /\ mh[k].msg.author = author THEN [g[k] EXCEPT !.alone = FALSE] ELSE g[k]]

DisturbAll(g) == [k \in Handlers |-> [g[k] EXCEPT !.alone = FALSE]]

\* what autoBanIfRestrictedChannel may return: true only in a restricted guild
\* channel, and only if the member was fetched and the ban went through
AutoBanOutcomes(m) == IF m.guild /\ m.restricted THEN {TRUE, FALSE} ELSE {FALSE}

\* lines 339-342: the event arrives at the first idle handler; a bot's message is
\* dropped, any other message waits for autoBanIfRestrictedChannel
MessageCreate(h, m) ==
    /\ evCount < eventBudget
    /\ mh[h].pc = "idle"
    /\ \A k \in Handlers : k < h => mh[k].pc # "idle"
    /\ evCount' = evCount + 1
    /\ mh' = [mh EXCEPT ![h] =
                [MhIdle EXCEPT !.msg = m, !.pc = IF m.bot THEN "idle" ELSE "autoban"]]
    /\ ghost' = [ghost EXCEPT ![h] = GhostIdle]
    /\ UNCHANGED <<fixed, globalSystemPrompt, conversations, heap, pushed, ih, bans, unhandled>>

\* lines 355-357: the user turn is pushed and the history trimmed; then sendTyping
PushUserTurn(h, got, text) ==
    /\ conversations' = got.convs
    /\ heap' = [heap EXCEPT ![got.id] = PushAndTrim(@, Turn("user", text))]
    /\ pushed' = [pushed EXCEPT ![got.id] = Append(@, Turn("user", text))]
    /\ mh' = [mh EXCEPT ![h] = [@ EXCEPT !.pc = "typing", !.conv = got.id,
                                            !.userMessage = text]]
    /\ ghost' = [DisturbOthers(ghost, h, mh[h].msg.author) EXCEPT ![h] =
                    [GhostIdle EXCEPT !.pre = heap[got.id], !.alone = TRUE]]

\* lines 350-355: userMessage and the conversation of the author
AppendUserTurn(h) ==
    PushUserTurn(h, getConversation(mh[h].msg.author), UserMessage(mh[h].msg.content))

\* the guard without line 345: a direct message that mentions the bot goes on
QualifiesAlsoDirect(m, autoBanned) == ~autoBanned /\ m.mentioned

\* lines 343-348: the message goes on only if its author was not banned, it is in
\* a guild and it mentions the bot
Qualifies(m, autoBanned) == ~autoBanned /\ m.guild /\ m.mentioned

\* lines 342-357: autoBanIfRestrictedChannel resolves
AutoBanResolved(h) ==
    /\ mh[h].pc = "autoban"
    /\ \E autoBanned \in AutoBanOutcomes(mh[h].msg) :
         /\ bans' = IF autoBanned THEN bans + 1 ELSE bans
         /\ IF Qualifies(mh[h].msg, autoBanned)
            THEN AppendUserTurn(h)
            ELSE /\ mh' = [mh EXCEPT ![h] = MhIdle]
                 /\ UNCHANGED <<conversations, heap, pushed, pushed, ghost>>
    /\ UNCHANGED <<fixed, globalSystemPrompt, ih, unhandled, evCount>>

\* a finally block that leaves the timer pending
clearTimeoutMissing(t) == t

\* line 172: clearTimeout(t) cancels a pending timer and does nothing to one that
\* has fired
clearTimeout(t) == IF t = "armed" THEN "cleared" ELSE t

\* line 141: the callback of the timer, controller.abort()
Abort(rec) == [rec EXCEPT !.timer = "fired", !.aborted = TRUE]

\* lines 372-378: the catch block calls message.reply with the error
OnError(rec) == [rec EXCEPT !.pc = "errreply", !.errReplies = @ + 1]

\* lines 360-366 and 127-149: sendTyping resolves; on success the request is built
\* from the conversation as it is now, the timer is set and the request is sent,
\* on failure the catch block runs
TypingResolved(h) ==
    /\ mh[h].pc = "typing"
    /\ \E ok \in BOOLEAN :
         mh' = [mh EXCEPT ![h] =
                  IF ok
                  THEN [@ EXCEPT !.pc = "fetch", !.typing = "ok", !.timer = "armed",
                                 !.req = RequestMessages(heap[mh[h].conv]),
                                 !.requests = @ + 1]
                  ELSE OnError([@ EXCEPT !.typing = "failed"])]
    /\ UNCHANGED <<fixed, globalSystemPrompt, conversations, heap, pushed, ih, bans,
                   unhandled, evCount, ghost>>

\* the number of parts sendLongReply makes of the answer
PartsOf(assistantText) == Len(ReplyParts([isNull |-> FALSE, runs |-> ToRuns(assistantText)]))


\* lines 161-172, 368-371 and 215-243: a 2xx body arrives and the timer is
\* cleared; the assistant turn is pushed to the conversation object this handler
\* holds, the history trimmed, and sendLongReply calls message.reply with the
\* first part
PushAssistantTurn(h, body, text) ==
    /\ heap' = [heap EXCEPT ![mh[h].conv] = PushAndTrim(@, Turn("assistant", text))]
    /\ pushed' = [pushed EXCEPT ![mh[h].conv] = Append(@, Turn("assistant", text))]
    /\ mh' = [mh EXCEPT ![h] = [@ EXCEPT !.pc = "reply", !.result = "ok",
                                            !.assistantText = text,
                                            !.timer = clearTimeout(@),
                                            !.pushedAssistant = TRUE,
                                            !.nparts = PartsOf(text)]]
    /\ ghost' = [DisturbOthers(ghost, h, mh[h].msg.author) EXCEPT ![h].body = body]

\* an assistant turn pushed to the conversation the store holds for the author when
\* the completion returns, if it holds one
PushAssistantTurnToStore(h, body, text) ==
    LET author == mh[h].msg.author
        target == IF conversations[author] # NoConv THEN conversations[author]
                  ELSE mh[h].conv
    IN  /\ heap' = [heap EXCEPT ![target] = PushAndTrim(@, Turn("assistant", text))]
        /\ pushed' = [pushed EXCEPT ![target] = Append(@, Turn("assistant", text))]
        /\ mh' = [mh EXCEPT ![h] = [@ EXCEPT !.pc = "reply", !.result = "ok",
                                                !.assistantText = text,
                                                !.timer = clearTimeout(@),
                                                !.pushedAssistant = TRUE,
                                                !.nparts = PartsOf(text)]]
        /\ ghost' = [DisturbOthers(ghost, h, mh[h].msg.author) EXCEPT ![h].body = body]

OnCompletionToStore(h, body) == PushAssistantTurnToStore(h, body, CompletionText(body))

\* lines 362-366: assistantText is what openAiChatCompletions returns for the body
OnCompletion(h, body) == PushAssistantTurn(h, body, CompletionText(body))

\* a catch block that takes the last turn back out of the conversation
OnCompletionErrorRollback(h, failure) ==
    /\ LET rec == IF failure = "timeout" THEN Abort(mh[h]) ELSE mh[h]
       IN  mh' = [mh EXCEPT ![h] = OnError([rec EXCEPT !.result = failure,
                                                       !.timer = clearTimeout(@)])]
    /\ heap' = [heap EXCEPT ![mh[h].conv] = SubSeq(@, 1, Len(@) - 1)]
    /\ UNCHANGED pushed
    /\ UNCHANGED ghost

\* lines 141-159, 171-173 and 372-378: the call throws, after the abort of the
\* timer or with the timer pending, which the finally block clears; the catch
\* block of the handler replies with the error
OnCompletionError(h, failure) ==
    /\ LET rec == IF failure = "timeout" THEN Abort(mh[h]) ELSE mh[h]
       IN  mh' = [mh EXCEPT ![h] = OnError([rec EXCEPT !.result = failure,
                                                       !.timer = clearTimeout(@)])]
    /\ UNCHANGED <<heap, pushed, ghost>>

\* the completion call ends before its timer fires
FetchResolved(h) ==
    /\ mh[h].pc = "fetch"
    /\ \/ \E body \in Bodies : OnCompletion(h, body)
       \/ \E failure \in UpstreamFailures : OnCompletionError(h, failure)
    /\ UNCHANGED <<fixed, globalSystemPrompt, conversations, ih, bans, unhandled,
                   evCount>>

\* line 141: the timer fires and its callback aborts the controller; a request in
\* flight is rejected with the abort error, and the call throws
TimerFired(h) ==
    /\ mh[h].timer = "armed"
    /\ IF mh[h].pc = "fetch"
       THEN OnCompletionError(h, "timeout")
       ELSE /\ mh' = [mh EXCEPT ![h] = Abort(@)]
            /\ UNCHANGED <<heap, pushed, ghost>>
    /\ UNCHANGED <<fixed, globalSystemPrompt, conversations, ih, bans, unhandled,
                   evCount>>

\* the handler returns: its slot is idle and the object it held may be garbage
Return(h) ==
    /\ mh' = [mh EXCEPT ![h] = MhIdle]
    /\ heap' = Collect(heap, conversations, [mh EXCEPT ![h] = MhIdle])
    /\ pushed' = Collect(pushed, conversations, [mh EXCEPT ![h] = MhIdle])
    /\ ghost' = [ghost EXCEPT ![h] = GhostIdle]

\* lines 243-246: a message.reply or channel.send of sendLongReply resolves; the
\* next part is sent, or the handler returns; a rejection goes to the catch block
ReplyResolved(h) ==
    /\ mh[h].pc = "reply"
    /\ \E ok \in BOOLEAN :
         IF ok /\ mh[h].sent < mh[h].nparts
         THEN IF mh[h].sent + 1 < mh[h].nparts
              THEN /\ mh' = [mh EXCEPT ![h] = [@ EXCEPT !.sent = @ + 1]]
                   /\ UNCHANGED <<heap, pushed, ghost>>
              ELSE Return(h)
         ELSE /\ mh' = [mh EXCEPT ![h] = OnError(@)]
              /\ UNCHANGED <<heap, pushed, ghost>>
    /\ UNCHANGED <<fixed, globalSystemPrompt, conversations, ih, bans, unhandled,
                   evCount>>

\* lines 374-379: the error reply resolves; its own failure is swallowed
ErrorReplyResolved(h) ==
    /\ mh[h].pc = "errreply"
    /\ Return(h)
    /\ UNCHANGED <<fixed, globalSystemPrompt, conversations, ih, bans, unhandled,
                   evCount>>

-----------------------------------------------------------------------------
(* The interactionCreate handler *)

\* a reset that spares the users whose mention is being handled
ClearOnlyIdle ==
    [u \in Users |->
        IF \E h \in Handlers : mh[h].pc # "idle" /\ mh[h].msg.author = u
        THEN conversations[u] ELSE NoConv]

\* state.conversations = {}
ClearConversations == [u \in Users |-> NoConv]

\* the prompt stored without the fallback of lines 322-324
StoredPromptNoDefault(prompt) == Trim(prompt)

\* lines 321-324: the prompt the command stores
StoredPrompt(prompt) ==
    IF Len(Trim(prompt)) > 0 THEN Trim(prompt) ELSE SYSTEM_PROMPT

\* lines 312-314: /reset
ResetCommand ==
    /\ evCount < eventBudget
    /\ ih.pc = "idle"
    /\ evCount' = evCount + 1
    /\ conversations' = ClearConversations
    /\ heap' = Collect(heap, ClearConversations, mh)
    /\ pushed' = Collect(pushed, ClearConversations, mh)
    /\ ih' = [IhIdle EXCEPT !.pc = "confirm", !.cmd = "reset"]
    /\ ghost' = DisturbAll(ghost)
    /\ UNCHANGED <<fixed, globalSystemPrompt, mh, bans, unhandled>>

\* lines 318-326: /systemprompt
SystemPromptCommand(prompt, resetContext) ==
    /\ evCount < eventBudget
    /\ ih.pc = "idle"
    /\ evCount' = evCount + 1
    /\ globalSystemPrompt' = StoredPrompt(prompt)
    /\ conversations' = IF resetContext THEN ClearConversations ELSE conversations
    /\ heap' = Collect(heap, conversations', mh)
    /\ pushed' = Collect(pushed, conversations', mh)
    /\ ih' = [IhIdle EXCEPT !.pc = "confirm", !.cmd = "systemprompt",
                           !.prompt = prompt, !.resetContext = resetContext]
    /\ ghost' = IF resetContext THEN DisturbAll(ghost) ELSE ghost
    /\ UNCHANGED <<fixed, mh, bans, unhandled>>

\* lines 309 and 329: an interaction that is no chat input command, or a command
\* of another name: the handler returns
OtherInteraction ==
    /\ evCount < eventBudget
    /\ ih.pc = "idle"
    /\ evCount' = evCount + 1
    /\ ih' = IhIdle
    /\ UNCHANGED <<fixed, globalSystemPrompt, conversations, heap, pushed, mh, bans,
                   unhandled, ghost>>

\* lines 314/326 and 330-334: the confirmation resolves; if it rejects, the catch
\* block finds interaction.replied false and replies with the error
ConfirmResolved ==
    /\ ih.pc = "confirm"
    /\ \E ok \in BOOLEAN :
         ih' = IF ok THEN IhIdle ELSE [ih EXCEPT !.pc = "errreply"]
    /\ UNCHANGED <<fixed, globalSystemPrompt, conversations, heap, pushed, mh, bans,
                   unhandled, evCount, ghost>>

\* line 333: the error reply resolves; nothing catches its rejection
InteractionErrorReplyResolved ==
    /\ ih.pc = "errreply"
    /\ \E ok \in BOOLEAN :
         /\ ih' = IhIdle
         /\ unhandled' = (unhandled \/ ~ok)
    /\ UNCHANGED <<fixed, globalSystemPrompt, conversations, heap, pushed, mh, bans,
                   evCount, ghost>>

-----------------------------------------------------------------------------
(* A push and trimHistory on their own, under the bounds the environment   *)
(* may set.  Number() takes the bounds as they come: nothing keeps them    *)
(* above zero.  (A negative MAX_HISTORY_MESSAGES makes the first loop of   *)
(* trimHistory spin on the empty array; the bounds here are not negative.) *)

\* the most messages of the conversation a turn is pushed to
MaxStored == 2

\* values of MAX_HISTORY_MESSAGES
MessageBounds == {0, 1, 2, 30}

\* values of MAX_HISTORY_CHARS
CharBounds == {0, 3, 12000}

Contents == { <<>>, <<"a">>, <<"a","b","c","d">> }

Turns == {Turn(r, c) : r \in {"user", "assistant"}, c \in Contents}

RECURSIVE TurnSeqs(_)
TurnSeqs(n) ==
    IF n = 0 THEN {<<>>}
    ELSE TurnSeqs(n - 1) \cup {Append(ms, t) : ms \in TurnSeqs(n - 1), t \in Turns}

TrmIdle == [phase |-> "idle", messages |-> <<>>, turn |-> Turn("user", <<>>), out |-> <<>>]

\* the conversations a push may find: those an earlier trimHistory left
TrmInit ==
    trm \in {[TrmIdle EXCEPT !.phase = "input", !.messages = ms, !.turn = t] :
                ms \in {x \in TurnSeqs(MaxStored) : trimHistory(x) = x}, t \in Turns}

\* lines 356-357 and 368-369: conversation.messages.push(turn); trimHistory(conversation)
PushTurn ==
    /\ trm.phase = "input"
    /\ trm' = [trm EXCEPT !.phase = "trimmed", !.out = PushAndTrim(trm.messages, trm.turn)]
    /\ UNCHANGED <<botVars, san, chk, url>>

-----------------------------------------------------------------------------
(* buildChatCompletionsUrl, in the environment the process was started in *)

\* the most fragments the path of a base URL is made of
MaxUrlFrags == 3

\* the default of line 23
DEFAULT_BASE_URL == <<"h","t","t","p","s",":","/","/","a","p","i",".","o","p","e","n","a","i",".","c","o","m","/","v","1">>

CHAT_COMPLETIONS == <<"/","c","h","a","t","/","c","o","m","p","l","e","t","i","o","n","s">>

V1_CHAT_COMPLETIONS == <<"/","v","1","/","c","h","a","t","/","c","o","m","p","l","e","t","i","o","n","s">>

HOST == <<"h","t","t","p","s",":","/","/","h">>

HOST_OPENAI == <<"h","t","t","p","s",":","/","/","h","o","s","t","/","o","p","e","n","a","i">>

OVERRIDE == <<"h","t","t","p","s",":","/","/","o","/","c">>

\* s.replace(/\/+$/, '')
RECURSIVE StripTrailingSlashes(_)
StripTrailingSlashes(s) ==
    IF Len(s) > 0 /\ s[Len(s)] = "/"
    THEN StripTrailingSlashes(SubSeq(s, 1, Len(s) - 1))
    ELSE s

\* s.endsWith(suffix)
EndsWith(s, suffix) ==
    /\ Len(suffix) <= Len(s)
    /\ SubSeq(s, Len(s) - Len(suffix) + 1, Len(s)) = suffix

\* a || b on an environment variable: unset and empty are both falsy
OrElse(v, other) == IF v # Absent /\ Len(v[1]) > 0 THEN v[1] ELSE other

\* lines 23-24: OPENAI_BASE_URL
OPENAI_BASE_URL(env) ==
    StripTrailingSlashes(OrElse(env.baseUrl, OrElse(env.novitaBaseUrl, DEFAULT_BASE_URL)))

\* a resolver that takes the base for one that never ends in /v1
buildChatCompletionsUrlNoV1Check(env) ==
    IF env.apiUrl # Absent /\ Len(env.apiUrl[1]) > 0
    THEN Trim(env.apiUrl[1])
    ELSE StripTrailingSlashes(OPENAI_BASE_URL(env)) \o V1_CHAT_COMPLETIONS

\* lines 93-98
buildChatCompletionsUrl(env) ==
    IF env.apiUrl # Absent /\ Len(env.apiUrl[1]) > 0
    THEN Trim(env.apiUrl[1])
    ELSE LET clean == StripTrailingSlashes(OPENAI_BASE_URL(env))
         IN  IF EndsWith(clean, <<"/","v","1">>)
             THEN clean \o CHAT_COMPLETIONS
             ELSE clean \o V1_CHAT_COMPLETIONS

\* what a base URL is put together from after its host
UrlFragments == { <<"/","v","1">>, <<"/","V","1">>, <<"/","o">>, <<"/">>, <<" ">> }

RECURSIVE UrlTails(_)
UrlTails(n) ==
    IF n = 0 THEN {<<>>}
    ELSE UrlTails(n - 1) \cup {t \o f : t \in UrlTails(n - 1), f \in UrlFragments}

\* the values of OPENAI_BASE_URL in the environment: unset, empty, slashes only,
\* the two bases of the documentation, and a host followed by fragments
BaseUrls ==
    {Absent, Present(<<>>), Present(<<"/","/">>), Present(DEFAULT_BASE_URL),
     Present(HOST_OPENAI)}
      \cup {Present(HOST \o t) : t \in UrlTails(MaxUrlFrags)}

\* the values of OPENAI_API_URL in the environment
ApiUrls ==
    {Absent, Present(<<>>), Present(OVERRIDE), Present(<<" ">> \o OVERRIDE \o <<" ">>),
     Present(<<" ">>)}

\* the values of NOVITA_BASE_URL in the environment
NovitaBaseUrls == {Absent, Present(HOST_OPENAI \o <<"/">>)}

Env(apiUrl, baseUrl, novitaBaseUrl) ==
    [apiUrl |-> apiUrl, baseUrl |-> baseUrl, novitaBaseUrl |-> novitaBaseUrl]

UrlIdle == [phase |-> "idle", env |-> Env(Absent, Absent, Absent), out |-> <<>>]

UrlInit ==
    url \in {[UrlIdle EXCEPT !.phase = "env", !.env = Env(a, b, n)] :
                a \in ApiUrls, b \in BaseUrls, n \in NovitaBaseUrls}

\* line 132: the request resolves its endpoint
ResolveUrl ==
    /\ url.phase = "env"
    /\ url' = [url EXCEPT !.phase = "resolved", !.out = buildChatCompletionsUrl(url.env)]
    /\ UNCHANGED <<botVars, san, chk, trm>>

-----------------------------------------------------------------------------
(* Specifications *)

Init == BotInit /\ san = SanIdle /\ chk = ChkIdle /\ url = UrlIdle /\ trm = TrmIdle

Next ==
    \/ \E h \in Handlers, m \in Messages : MessageCreate(h, m)
    \/ \E h \in Handlers : AutoBanResolved(h)
    \/ \E h \in Handlers : TypingResolved(h)
    \/ \E h \in Handlers : FetchResolved(h)
    \/ \E h \in Handlers : TimerFired(h)
    \/ \E h \in Handlers : ReplyResolved(h)
    \/ \E h \in Handlers : ErrorReplyResolved(h)
    \/ ResetCommand
    \/ \E prompt \in Prompts, resetContext \in BOOLEAN :
          SystemPromptCommand(prompt, resetContext)
    \/ OtherInteraction
    \/ ConfirmResolved
    \/ InteractionErrorReplyResolved

Spec == Init /\ [][Next]_vars

\* a timer that is set and not cleared fires in the end
SpecTimed == Spec /\ \A h \in Handlers : WF_vars(TimerFired(h))

SanitizerInit == BotOff /\ SanInit /\ chk = ChkIdle /\ url = UrlIdle /\ trm = TrmIdle

SanitizerNext == SanitizeOnce \/ SanitizeAgain

SpecSanitizer == SanitizerInit /\ [][SanitizerNext]_vars

ChunkerInit == BotOff /\ ChkInit /\ san = SanIdle /\ url = UrlIdle /\ trm = TrmIdle

ChunkerNext == ChunkStart \/ ChunkReplied \/ ChunkSent

SpecChunker == ChunkerInit /\ [][ChunkerNext]_vars

UrlResolverInit == BotOff /\ UrlInit /\ san = SanIdle /\ chk = ChkIdle /\ trm = TrmIdle

UrlResolverNext == ResolveUrl

SpecUrlResolver == UrlResolverInit /\ [][UrlResolverNext]_vars

\* one user, whose mentions meet commands that clear the store: a mention, a
\* clearing command while it is pending, and the next mention of the user
ResetRaceInit ==
    /\ \E cfg \in Configs :
         /\ maxHistoryMessages = cfg.messages
         /\ maxHistoryChars = cfg.chars
    /\ eventBudget = MaxEvents + 1
    /\ Constructed
    /\ san = SanIdle /\ chk = ChkIdle /\ url = UrlIdle /\ trm = TrmIdle

ResetRaceNext ==
    \/ \E h \in Handlers, m \in MentionsOfOne : MessageCreate(h, m)
    \/ \E h \in Handlers : AutoBanResolved(h)
    \/ \E h \in Handlers : TypingResolved(h)
    \/ \E h \in Handlers : FetchResolved(h)
    \/ \E h \in Handlers : TimerFired(h)
    \/ \E h \in Handlers : ReplyResolved(h)
    \/ \E h \in Handlers : ErrorReplyResolved(h)
    \/ ResetCommand
    \/ \E prompt \in Prompts : SystemPromptCommand(prompt, TRUE)
    \/ ConfirmResolved
    \/ InteractionErrorReplyResolved

SpecResetRace == ResetRaceInit /\ [][ResetRaceNext]_vars

TrimmerInit ==
    /\ maxHistoryMessages \in MessageBounds
    /\ maxHistoryChars \in CharBounds
    /\ eventBudget = MaxEvents
    /\ Constructed
    /\ TrmInit
    /\ san = SanIdle /\ chk = ChkIdle /\ url = UrlIdle

TrimmerNext == PushTurn

SpecTrimmer == TrimmerInit /\ [][TrimmerNext]_vars

-----------------------------------------------------------------------------
(* The claims *)

\* the sum of the content lengths of the messages
RECURSIVE ContentChars(_)
ContentChars(ms) == IF Len(ms) = 0 THEN 0 ELSE Len(ms[1].content) + ContentChars(Tail(ms))

\* the conversation the store holds for user u
Stored(u) == heap[conversations[u]]

\* C1: every conversation in the store holds at most MAX_HISTORY_MESSAGES messages,
\* and if it holds more than one, their content lengths sum to at most
\* MAX_HISTORY_CHARS, in every state any interleaving of the handlers reaches.
TrimInvariant ==
    \A u \in Users :
        conversations[u] # NoConv =>
            /\ Len(Stored(u)) <= maxHistoryMessages
            /\ Len(Stored(u)) > 1 => ContentChars(Stored(u)) <= maxHistoryChars

\* an assistant turn was just pushed to a stored conversation and a turn was evicted
TrimWitness ==
    \E h \in Handlers :
        /\ mh[h].pc = "reply"
        /\ conversations[mh[h].msg.author] = mh[h].conv
        /\ ghost[h].alone
        /\ Len(heap[mh[h].conv]) < Len(ghost[h].pre) + 2

\* C2: sanitizing a sanitized string changes nothing.
SanitizerIdempotent == san.phase = "twice" => san.twice = san.once

\* C3: sendLongReply makes at least one part of every text, and exactly the one
\* part "(no content)" of an empty or null text.
ChunkerNonEmpty ==
    chk.phase # "input" =>
        /\ Len(chk.parts) >= 1
        /\ (chk.text.isNull \/ Len(chk.text.runs) = 0) => chk.parts = <<NO_CONTENT>>

\* C4: no rejection escapes the interaction handler, whatever platform call fails.
AdminErrorsNeverEscape == ~unhandled

\* C5: a failed typing indicator does not stop the mention: the completion request
\* is sent, and no error reply is made unless the completion itself fails.
TypingBestEffort ==
    \A h \in Handlers :
        mh[h].typing = "failed" =>
            /\ mh[h].requests = 1
            /\ mh[h].result = "none" => mh[h].errReplies = 0

\* the completion call of h ends in a failure in this step
CompletionFails(h) == mh[h].pc = "fetch" /\ mh'[h].result \in Failures

\* h, whose completion failed, takes its next step
AfterFailure(h) == mh[h].pc = "errreply" /\ mh[h].result \in Failures /\ mh'[h] # mh[h]

\* C6: when the completion call fails, the step changes no conversation (the user
\* turn stands: it is the last turn of the conversation if no other event touched
\* it), pushes no assistant turn and makes exactly one error reply, after exactly
\* one request; the handler then returns without another request or reply.
CompletionFailureKeepsTurn ==
    [][\A h \in Handlers :
          /\ CompletionFails(h) =>
                /\ conversations' = conversations
                /\ heap' = heap
                /\ mh'[h].pc = "errreply"
                /\ mh'[h].errReplies = 1
                /\ mh'[h].requests = 1
                /\ ~mh'[h].pushedAssistant
                /\ ghost[h].alone =>
                      /\ conversations'[mh[h].msg.author] = mh[h].conv
                      /\ Len(heap'[mh[h].conv]) > 0
                      /\ heap'[mh[h].conv][Len(heap'[mh[h].conv])]
                            = Turn("user", mh[h].userMessage)
          /\ AfterFailure(h) =>
                /\ mh'[h] = MhIdle
                /\ conversations' = conversations
                /\ \A u \in Users :
                      conversations[u] # NoConv => heap'[conversations[u]] = Stored(u)
      ]_vars

\* a completion has failed and the user turn is the last of the stored conversation
CompletionFailureWitness ==
    \E h \in Handlers :
        /\ mh[h].pc = "errreply"
        /\ mh[h].result \in Failures
        /\ conversations[mh[h].msg.author] = mh[h].conv
        /\ Len(heap[mh[h].conv]) > 0
        /\ heap[mh[h].conv][Len(heap[mh[h].conv])] = Turn("user", mh[h].userMessage)

\* the reset command runs in this step
ResetRuns == ih.pc = "idle" /\ ih'.pc = "confirm" /\ ih'.cmd = "reset"

\* C7: right after the reset command the store holds no conversation for any user,
\* whatever it held before (nothing, too), and the system prompt is as it was.
ResetEmptiesStore ==
    [][ResetRuns =>
          /\ \A u \in Users : conversations'[u] = NoConv
          /\ globalSystemPrompt' = globalSystemPrompt
      ]_vars

\* the reset has run while a handler holds a non-empty conversation, which the
\* store held before
ResetWitness ==
    /\ ih.pc = "confirm"
    /\ ih.cmd = "reset"
    /\ \A u \in Users : conversations[u] = NoConv
    /\ \E h \in Handlers : mh[h].conv # NoConv /\ Len(heap[mh[h].conv]) > 0

\* the text the client reads from a 2xx body: the content or the legacy text,
\* sanitized and trimmed, and the sanitized reasoning_content if that is empty
ResponseText(body) ==
    LET primary == Trim(stripThinkBlocks(
                        IF body.content # Absent THEN body.content[1]
                        ELSE IF body.text # Absent THEN body.text[1] ELSE <<>>))
    IN  IF primary # <<>> THEN primary
        ELSE Trim(stripThinkBlocks(IF body.reasoning # Absent THEN body.reasoning[1] ELSE <<>>))

\* the text of the mention without the bot's mention, or the placeholder
MentionText(content) ==
    IF stripBotMention(content, BotUserId) # <<>>
    THEN stripBotMention(content, BotUserId)
    ELSE PLACEHOLDER

\* the completion of h has succeeded, no other event has touched the conversation of
\* its author since the mention arrived, and the two turns fit the history bounds
SucceededAlone(h) ==
    /\ mh[h].pc = "reply"
    /\ ghost[h].alone
    /\ Len(ghost[h].pre) + 2 <= maxHistoryMessages
    /\ ContentChars(ghost[h].pre) + Len(MentionText(mh[h].msg.content))
          + Len(ResponseText(ghost[h].body)) <= maxHistoryChars

\* C8: after a mention whose completion succeeds, alone and within the bounds, the
\* stored conversation of the author is what it was plus the user turn (the mention
\* text without the bot's mention, or the placeholder) and the assistant turn (the
\* sanitized, trimmed response text): "hello" and "Hi there" for "<@1>hello" and
\* "<think>x</think>Hi there".
EndToEndSuccess ==
    \A h \in Handlers :
        SucceededAlone(h) =>
            /\ conversations[mh[h].msg.author] = mh[h].conv
            /\ heap[mh[h].conv] =
                  ghost[h].pre \o <<Turn("user", MentionText(mh[h].msg.content)),
                                    Turn("assistant", ResponseText(ghost[h].body))>>
            /\ (mh[h].msg.content = MENTION_HELLO /\ ghost[h].body.content = Present(THINK_HI_THERE))
                  => heap[mh[h].conv] =
                        ghost[h].pre \o <<Turn("user", HELLO), Turn("assistant", HI_THERE)>>

\* "<@1>hello" answered by "<think>x</think>Hi there" in a fresh conversation
EndToEndWitness ==
    \E h \in Handlers :
        /\ SucceededAlone(h)
        /\ mh[h].msg.content = MENTION_HELLO
        /\ ghost[h].body.content = Present(THINK_HI_THERE)
        /\ heap[mh[h].conv] = <<Turn("user", HELLO), Turn("assistant", HI_THERE)>>

\* a message the chat pipeline must ignore, whatever autoBanIfRestrictedChannel does
Ignored(m) == m.bot \/ ~m.guild \/ ~m.mentioned

\* C9: a message that is bot-authored, direct, without a mention of the bot, or
\* whose author was just banned, ends its handler with no change to any
\* conversation or to the system prompt, no request and no reply; and only a
\* non-bot guild message that mentions the bot is ever past that point.
OnlyMentionsDrivePipeline ==
    [][\A h \in Handlers :
          /\ (mh'[h] # mh[h] /\ mh[h].pc = "idle" /\ mh'[h].msg.bot) =>
                /\ mh'[h] = [MhIdle EXCEPT !.msg = mh'[h].msg]
                /\ UNCHANGED <<conversations, heap, globalSystemPrompt>>
          /\ (mh'[h] # mh[h] /\ mh[h].pc = "autoban"
                /\ (Ignored(mh[h].msg) \/ bans' # bans)) =>
                /\ mh'[h] = MhIdle
                /\ UNCHANGED <<conversations, heap, globalSystemPrompt>>
          /\ mh'[h].pc \notin {"idle", "autoban"} => ~Ignored(mh'[h].msg)
      ]_vars

\* an author was banned and the store is as empty as before
IgnoredWitness ==
    /\ bans > 0
    /\ \A u \in Users : conversations[u] = NoConv
    /\ \A h \in Handlers : mh[h].pc = "idle"

\* C10: every part sendLongReply makes is at most 1900 characters long.
ChunkSizeBound ==
    chk.phase # "input" => \A i \in 1..Len(chk.parts) : RLen(chk.parts[i]) <= MAX

\* an over-long line was split, and lines were put together in another part
ChunkSizeWitness ==
    /\ chk.phase = "reply"
    /\ \E i \in 1..Len(chk.parts) : RLen(chk.parts[i]) = MAX
    /\ \E i \in 1..Len(chk.parts) : RLen(chk.parts[i]) < MAX
    /\ Len(chk.parts) >= 3


\* the runs of a string with neighbouring runs of one character merged: two run
\* sequences are the same string exactly when these are equal
RECURSIVE RNorm(_)
RNorm(rs) ==
    IF Len(rs) = 0 THEN <<>>
    ELSE IF rs[1].n = 0 THEN RNorm(Tail(rs))
    ELSE IF Len(rs) >= 2 /\ rs[2].c = rs[1].c
         THEN RNorm(<<[c |-> rs[1].c, n |-> rs[1].n + rs[2].n]>> \o Tail(Tail(rs)))
         ELSE <<rs[1]>> \o RNorm(Tail(rs))

\* parts[j], ..., parts[j + k - 1] joined without a separator
RECURSIVE JoinParts(_, _, _)
JoinParts(parts, j, k) ==
    IF k = 0 THEN <<>> ELSE parts[j] \o JoinParts(parts, j + 1, k - 1)

\* ceil(L / MAX)
PieceCount(L) == (L + MAX - 1) \div MAX

\* the parts from j on are the pieces of the line, in order
PiecesAt(parts, j, line) ==
    LET k == PieceCount(RLen(line))
    IN  /\ j + k - 1 <= Len(parts)
        /\ \A i \in 0..(k - 2) : RLen(parts[j + i]) = MAX
        /\ RLen(parts[j + k - 1]) = RLen(line) - (k - 1) * MAX
        /\ RNorm(JoinParts(parts, j, k)) = RNorm(line)

\* C11: every line of the text that is longer than MAX is found in the parts as
\* ceil(L / MAX) consecutive parts, each of MAX characters except possibly the last,
\* which joined in order are the line; a text that is one such line makes these
\* parts and no other, and a line of 5000 characters makes parts of 1900, 1900 and
\* 1200 characters.
OversizedLineSplit ==
    chk.phase # "input" =>
        LET lines == SplitLines(ReplyText(chk.text))
        IN  /\ \A i \in 1..Len(lines) :
                 RLen(lines[i]) > MAX =>
                     \E j \in 1..Len(chk.parts) : PiecesAt(chk.parts, j, lines[i])
            /\ (Len(lines) = 1 /\ RLen(lines[1]) > MAX) =>
                     Len(chk.parts) = PieceCount(RLen(lines[1]))
            /\ (Len(lines) = 1 /\ RLen(lines[1]) = 5000) =>
                     [i \in 1..Len(chk.parts) |-> RLen(chk.parts[i])] = <<1900, 1900, 1200>>

\* a line of 5000 characters after a short line was split into three parts
OversizedLineWitness ==
    /\ chk.phase = "reply"
    /\ LET lines == SplitLines(ReplyText(chk.text))
       IN  /\ Len(lines) = 2
           /\ RLen(lines[1]) = 1
           /\ RLen(lines[2]) = 5000
    /\ Len(chk.parts) = 4


\* the step in which the handler of /systemprompt runs up to its confirmation
SystemPromptRuns == ih.pc = "idle" /\ ih'.pc = "confirm" /\ ih'.cmd = "systemprompt"

\* the request of handler h starts with one system entry of non-empty content
SystemEntryNonEmpty(h) ==
    /\ Len(mh[h].req) >= 1
    /\ mh[h].req[1].role = "system"
    /\ Len(mh[h].req[1].content) > 0

\* C12: the step of /systemprompt stores the trimmed prompt option, or SYSTEM_PROMPT
\* when the trimmed option is empty; with reset_context it leaves no conversation
\* in the store, without it it leaves the store and every conversation as they
\* were; and in every state the stored prompt, the prompt getSystemPrompt returns
\* and the system entry of every request sent are non-empty.
SystemPromptCommandContract ==
    /\ [](/\ Len(globalSystemPrompt) > 0
          /\ Len(getSystemPrompt) > 0
          /\ \A h \in Handlers : mh[h].requests > 0 => SystemEntryNonEmpty(h))
    /\ [][SystemPromptRuns =>
            /\ globalSystemPrompt' =
                  (IF Len(Trim(ih'.prompt)) = 0 THEN SYSTEM_PROMPT ELSE Trim(ih'.prompt))
            /\ ih'.resetContext => \A u \in Users : conversations'[u] = NoConv
            /\ ~ih'.resetContext =>
                  /\ conversations' = conversations
                  /\ \A u \in Users :
                        conversations[u] # NoConv => heap'[conversations[u]] = Stored(u)
                  /\ \A h \in Handlers :
                        mh[h].conv # NoConv => heap'[mh[h].conv] = heap[mh[h].conv]]_vars

\* /systemprompt with a blank prompt and no reset_context ran while the store held
\* a conversation: the default prompt is stored and the conversation is still there
SystemPromptWitness ==
    /\ ih.pc = "confirm"
    /\ ih.cmd = "systemprompt"
    /\ ih.prompt = <<" ", " ">>
    /\ ~ih.resetContext
    /\ globalSystemPrompt = SYSTEM_PROMPT
    /\ \E u \in Users : conversations[u] # NoConv /\ Len(Stored(u)) > 0


\* how the call of h has ended
CallEnded(h) == mh[h].result \in {"ok"} \cup Failures

\* the timer, the controller and the outcome of the call of h agree
TimerConsistent(h) ==
    /\ mh[h].result \in {"none", "ok"} \cup Failures
    /\ mh[h].pc = "fetch" <=> mh[h].timer = "armed"
    /\ mh[h].pc = "fetch" => mh[h].result = "none" /\ ~mh[h].aborted
    /\ mh[h].aborted <=> mh[h].result = "timeout"
    /\ mh[h].result = "timeout" => mh[h].timer = "fired"
    /\ mh[h].result \in {"ok"} \cup UpstreamFailures => mh[h].timer = "cleared"

\* the timer of h fires in this step
TimerFires(h) == mh[h].timer = "armed" /\ mh'[h].timer = "fired"

\* C13: a timer that fires does so while the request is in flight, aborts it, and
\* the call fails with an error the handler treats as it treats an upstream error
\* (one error reply, no assistant turn, no conversation changed); a call that ends
\* before that leaves its timer cleared, and a cleared timer never aborts; every
\* call in flight ends, as exactly one of success, upstream error and timeout.
CompletionTimeout ==
    /\ [](\A h \in Handlers : TimerConsistent(h))
    /\ [][\A h \in Handlers :
            /\ TimerFires(h) =>
                  /\ mh[h].pc = "fetch"
                  /\ mh'[h] = [OnError(mh[h]) EXCEPT !.result = "timeout",
                                                     !.timer = "fired", !.aborted = TRUE]
                  /\ heap' = heap
                  /\ conversations' = conversations
            /\ mh[h].timer = "cleared" => mh'[h].timer \in {"cleared", "none"}
            /\ (mh[h].pc = "fetch" /\ mh'[h].pc # "fetch") =>
                  /\ mh'[h].pc \in {"reply", "errreply"}
                  /\ mh'[h].result \in {"ok"} \cup Failures
                  /\ mh'[h].result = "ok" <=> mh'[h].pc = "reply"]_vars
    /\ \A h \in Handlers : (mh[h].pc = "fetch") ~> CallEnded(h)

\* one call was aborted by its timer while another ended with its timer cleared
CompletionTimeoutWitness ==
    \E h, k \in Handlers :
        /\ mh[h].pc = "errreply"
        /\ mh[h].result = "timeout"
        /\ mh[h].aborted
        /\ mh[k].result = "ok"
        /\ mh[k].timer = "cleared"


\* the environment sets a full-URL override
OverrideConfigured(env) == env.apiUrl # Absent /\ env.apiUrl[1] # <<>>

\* the base URL the environment configures: OPENAI_BASE_URL, else NOVITA_BASE_URL,
\* else the default
ConfiguredBase(env) ==
    IF env.baseUrl # Absent /\ env.baseUrl[1] # <<>> THEN env.baseUrl[1]
    ELSE IF env.novitaBaseUrl # Absent /\ env.novitaBaseUrl[1] # <<>>
         THEN env.novitaBaseUrl[1]
         ELSE DEFAULT_BASE_URL

\* stripped is base without its trailing slashes
IsStripped(stripped, base) ==
    /\ Len(stripped) <= Len(base)
    /\ stripped = SubSeq(base, 1, Len(stripped))
    /\ \A i \in (Len(stripped) + 1)..Len(base) : base[i] = "/"
    /\ Len(stripped) > 0 => stripped[Len(stripped)] # "/"

\* out is what the base resolves to: the stripped base, then /chat/completions if
\* it ends in /v1 and /v1/chat/completions if not
ResolvedFromBase(out, base) ==
    \E n \in 0..Len(base) :
        LET stripped == SubSeq(base, 1, n)
            endsInV1 == /\ n >= 3
                        /\ stripped[n - 2] = "/" /\ stripped[n - 1] = "v" /\ stripped[n] = "1"
        IN  /\ IsStripped(stripped, base)
            /\ out = stripped \o (IF endsInV1 THEN CHAT_COMPLETIONS ELSE V1_CHAT_COMPLETIONS)

\* C14 as stated: with an override configured the endpoint is the override
\* verbatim, whatever the base; without one it is what the base resolves to.
UrlOverrideVerbatim ==
    url.phase = "resolved" =>
        IF OverrideConfigured(url.env)
        THEN url.out = url.env.apiUrl[1]
        ELSE ResolvedFromBase(url.out, ConfiguredBase(url.env))

\* C14, amended: with an override configured the endpoint is the override without
\* its leading and trailing white space, whatever the base; without one it is what
\* the base resolves to; the default base gives
\* https://api.openai.com/v1/chat/completions and the base https://host/openai
\* gives https://host/openai/v1/chat/completions.
UrlOverrideTrimmed ==
    url.phase = "resolved" =>
        /\ IF OverrideConfigured(url.env)
           THEN url.out = Trim(url.env.apiUrl[1])
           ELSE ResolvedFromBase(url.out, ConfiguredBase(url.env))
        /\ (~OverrideConfigured(url.env) /\ url.env.baseUrl = Present(DEFAULT_BASE_URL)) =>
              url.out = DEFAULT_BASE_URL \o CHAT_COMPLETIONS
        /\ (~OverrideConfigured(url.env) /\ url.env.baseUrl = Present(HOST_OPENAI)) =>
              url.out = HOST_OPENAI \o V1_CHAT_COMPLETIONS

\* an override with white space around it was resolved with a base configured
UrlOverrideWitness ==
    /\ url.phase = "resolved"
    /\ url.env.apiUrl = Present(<<" ">> \o OVERRIDE \o <<" ">>)
    /\ url.env.baseUrl = Present(HOST_OPENAI)
    /\ url.out = OVERRIDE


\* this step changes the conversation the store holds for user u: the entry, or a
\* turn of the conversation
ConversationChanged(u) ==
    \/ conversations'[u] # conversations[u]
    \/ conversations[u] # NoConv /\ heap'[conversations[u]] # Stored(u)

\* this step is a step of the messageCreate invocation h
HandlerStep(h) == mh'[h] # mh[h]

\* the author of the message h handles in this step
StepAuthor(h) == IF mh[h].pc = "idle" THEN mh'[h].msg.author ELSE mh[h].msg.author

\* this step is /reset, or /systemprompt with reset_context
ClearingCommandRuns ==
    /\ ih.pc = "idle"
    /\ ih'.pc = "confirm"
    /\ ih'.cmd = "reset" \/ (ih'.cmd = "systemprompt" /\ ih'.resetContext)

\* C15: a step of the handler of a mention leaves the store entry and every turn
\* of every user other than the author as they were, whatever other handlers are
\* in flight; a step that changes the conversation of a user is a step of a
\* mention of that user, or /reset, or /systemprompt with reset_context.
PerUserOwnership ==
    [][/\ \A h \in Handlers :
            HandlerStep(h) =>
                \A u \in Users \ {StepAuthor(h)} : ~ConversationChanged(u)
       /\ \A u \in Users :
            ConversationChanged(u) =>
                \/ ClearingCommandRuns
                \/ \E h \in Handlers : HandlerStep(h) /\ StepAuthor(h) = u
      ]_vars

\* the answer to one user was stored while a mention of another user, whose
\* conversation is in the store, was waiting for its completion
PerUserOwnershipWitness ==
    \E h, k \in Handlers :
        /\ mh[h].msg.author # mh[k].msg.author
        /\ mh[h].pushedAssistant
        /\ mh[k].pc = "fetch"
        /\ conversations[mh[h].msg.author] = mh[h].conv
        /\ conversations[mh[k].msg.author] = mh[k].conv
        /\ Len(heap[mh[k].conv]) > 0


\* C16: whatever MAX_HISTORY_MESSAGES and MAX_HISTORY_CHARS are, after a turn is
\* pushed and trimHistory applied the conversation is not empty and its last
\* message is the turn just pushed.
AppendedTurnSurvives ==
    trm.phase = "trimmed" =>
        /\ Len(trm.out) > 0
        /\ trm.out[Len(trm.out)] = trm.turn


\* s is the end of t
IsSuffix(s, t) ==
    /\ Len(s) <= Len(t)
    /\ \A i \in 1..Len(s) : s[i] = t[Len(t) - Len(s) + i]

\* s is the beginning of t
IsPrefix(s, t) ==
    /\ Len(s) <= Len(t)
    /\ \A i \in 1..Len(s) : s[i] = t[i]

\* the turns of object id that have been evicted
Evicted(id) == Len(pushed[id]) - Len(heap[id])

\* C17: every conversation object, in the store or held by a handler, holds a
\* contiguous suffix of the turns pushed to it, in the order they were pushed; as
\* long as a user's entry of the store is the same object, the turns pushed to it
\* only grow at the end and the evicted turns only grow, whatever handlers are in
\* flight for that user.
AppendOnlyFifo ==
    /\ [](\A id \in ObjIds : IsSuffix(heap[id], pushed[id]))
    /\ [][\A u \in Users :
            (conversations[u] # NoConv /\ conversations'[u] = conversations[u]) =>
                /\ IsPrefix(pushed[conversations[u]], pushed'[conversations[u]])
                /\ Len(pushed'[conversations[u]]) <= Len(pushed[conversations[u]]) + 1
                /\ Evicted(conversations[u]) <= Evicted(conversations[u])'
      ]_vars

\* two mentions of one user were handled together, both answers are stored and the
\* two oldest of the four turns pushed have been evicted
AppendOnlyFifoWitness ==
    \E h, k \in Handlers :
        /\ h # k
        /\ mh[h].conv = mh[k].conv
        /\ mh[h].conv # NoConv
        /\ conversations[mh[h].msg.author] = mh[h].conv
        /\ mh[h].pushedAssistant
        /\ mh[k].pushedAssistant
        /\ Len(pushed[mh[h].conv]) = 4
        /\ Len(heap[mh[h].conv]) = 2


\* h builds and sends its completion request in this step
RequestBuilt(h) == mh[h].pc = "typing" /\ mh'[h].pc = "fetch"

\* h waits for its completion, its answer not yet pushed
InFlight(h) == mh[h].pc = "fetch" /\ ~mh[h].pushedAssistant

Detached(h) == mh[h].conv # NoConv /\ conversations[mh[h].msg.author] # mh[h].conv

\* the completion of h returns with a body in this step
CompletionReturns(h) == InFlight(h) /\ mh'[h].pushedAssistant

\* C19: a command that clears the store detaches the conversation object of every
\* mention in flight; a detached object is in no entry of the store and never gets
\* back into it; when the completion of such a mention returns, its assistant turn
\* is pushed to the detached object and the store and its conversations are left
\* as they were; the entry the store makes for a user after the clearing is an
\* object no handler held before, and the only turn pushed to it is the user turn
\* of the mention that made it.
ResetNotUndone ==
    /\ [](\A h \in Handlers :
            Detached(h) => \A u \in Users : conversations[u] # mh[h].conv)
    /\ [][\A h \in Handlers :
            /\ (ClearingCommandRuns /\ mh[h].conv # NoConv) =>
                  /\ mh'[h].conv = mh[h].conv
                  /\ Detached(h)'
                  /\ \A u \in Users : conversations'[u] = NoConv
            /\ (Detached(h) /\ mh'[h].conv # NoConv) => Detached(h)'
            /\ (Detached(h) /\ CompletionReturns(h)) =>
                  /\ pushed'[mh[h].conv] =
                        Append(pushed[mh[h].conv], Turn("assistant", mh'[h].assistantText))
                  /\ IsSuffix(heap'[mh[h].conv], pushed'[mh[h].conv])
                  /\ conversations' = conversations
                  /\ \A u \in Users :
                        conversations[u] # NoConv => heap'[conversations[u]] = Stored(u)
            /\ (mh[h].conv = NoConv /\ mh'[h].conv # NoConv
                    /\ conversations[mh'[h].msg.author] = NoConv) =>
                  /\ conversations'[mh'[h].msg.author] = mh'[h].conv
                  /\ \A k \in Handlers : mh[k].conv # mh'[h].conv
                  /\ pushed'[mh'[h].conv] = <<Turn("user", mh'[h].userMessage)>>
      ]_vars

\* a mention was pending when the store was cleared; the next mention of its author
\* made a new conversation; the answer to the first was then pushed to the detached
\* object, and the stored conversation holds the user turn of the second only
ResetNotUndoneWitness ==
    \E h, k \in Handlers :
        /\ h # k
        /\ mh[h].msg.author = mh[k].msg.author
        /\ Detached(h)
        /\ mh[h].pushedAssistant
        /\ Len(pushed[mh[h].conv]) = 2
        /\ conversations[mh[k].msg.author] = mh[k].conv
        /\ mh[k].conv # NoConv
        /\ Stored(mh[k].msg.author) = <<Turn("user", mh[k].userMessage)>>


=============================================================================
